---- MODULE Spec2Model ----
(***************************************************************************)
(* Model of OsuLazerDatabase (src/electron/lib/lazer-database.ts): the     *)
(* adapter that opens the osu!lazer Realm file and the getAsBeatmapData    *)
(* pass that joins BeatmapSet / Beatmap / BeatmapMetadata /                *)
(* RealmNamedFileUsage records and resolves asset hashes with glob.        *)
(***************************************************************************)
EXTENDS Integers, Sequences, FiniteSets, TLC

(***************************************************************************)
(* Bounds of the model.                                                    *)
(***************************************************************************)
\* longest store built from the pool of hand-written sets
MaxSets == 2
\* longest store of uniform sets (used to exercise the progress cadence)
MaxCadenceSets == 100
\* how many times the caller may call getObjects on one instance
MaxGetObjectsCalls == 1

(***************************************************************************)
(* JavaScript values.  A string is Str(v); v is a TLA+ string for opaque   *)
(* text and a sequence of characters for text the code slices (hashes).    *)
(***************************************************************************)
Undefined == [t |-> "undefined"]
Null == [t |-> "null"]
Str(v) == [t |-> "str", v |-> v]
Num(n) == [t |-> "num", v |-> n]
\* the TypeError raised by a property read on null / undefined
Throw == [t |-> "throw"]

Nullish(v) == v = Undefined \/ v = Null

\* a == b on values that are strings, null or undefined
LooseEq(a, b) == a = b \/ (Nullish(a) /\ Nullish(b))

Min(a, b) == IF a < b THEN a ELSE b

UndefinedText == <<"u", "n", "d", "e", "f", "i", "n", "e", "d">>
NullText == <<"n", "u", "l", "l">>

\* ${v} inside a template literal, for a hash-like value
ToText(v) ==
  IF v = Undefined THEN UndefinedText
  ELSE IF v = Null THEN NullText
  ELSE v.v

\* h?.substring(0, n)
SubstringOpt(h, n) ==
  IF Nullish(h) THEN Undefined
  ELSE Str(SubSeq(h.v, 1, Min(n, Len(h.v))))

\* join(app.getPath("appData"), "osu", "files"), as path segments
FilesRoot ==
  << <<"a", "p", "p", "D", "a", "t", "a">>, <<"o", "s", "u">>,
     <<"f", "i", "l", "e", "s">> >>

\* the glob pattern built for one asset hash
PatternTail_OneLevel(h) == <<ToText(SubstringOpt(h, 1)), ToText(h)>>
PatternTail(h) ==
  <<ToText(SubstringOpt(h, 1)), ToText(SubstringOpt(h, 2)), ToText(h)>>

Pattern(h) == FilesRoot \o PatternTail(h)

(***************************************************************************)
(* The glob library over a file system.  A file system is the sequence of  *)
(* files below <appData>/osu/files in enumeration order, each a sequence   *)
(* of path segments.  The platform decides the separator of the paths glob *)
(* returns and whether matching ignores case.                              *)
(***************************************************************************)
Lower(c) ==
  CASE c = "A" -> "a"
    [] c = "B" -> "b"
    [] c = "D" -> "d"
    [] c = "E" -> "e"
    [] c = "F" -> "f"
    [] OTHER -> c

Fold(seg) == [k \in 1..Len(seg) |-> Lower(seg[k])]

SegMatch(a, b, nocase) == IF nocase THEN Fold(a) = Fold(b) ELSE a = b

FileMatches(file, tail, nocase) ==
  /\ Len(file) = Len(tail)
  /\ \A k \in 1..Len(file) : SegMatch(file[k], tail[k], nocase)

RECURSIVE Matching(_, _, _)
Matching(files, tail, nocase) ==
  IF files = <<>> THEN <<>>
  ELSE LET rest == Matching(Tail(files), tail, nocase)
       IN IF FileMatches(Head(files), tail, nocase)
          THEN <<Head(files)>> \o rest
          ELSE rest

\* glob.glob(pattern, { absolute: true }): absolute native paths
Glob(files, plat, pattern) ==
  LET tail == SubSeq(pattern, Len(FilesRoot) + 1, Len(pattern))
      hits == Matching(files, tail, plat.nocase)
  IN [k \in 1..Len(hits) |->
        Str([sep |-> plat.sep, segs |-> FilesRoot \o hits[k]])]

\* p.replace(/\\/g, "/")
ReplaceBackslash(p) == Str([sep |-> "/", segs |-> p.v.segs])

\* .then((p) => p.map((p) => p.replace(/\\/g, "/")))
NormalizePaths(ps) == [k \in 1..Len(ps) |-> ReplaceBackslash(ps[k])]

\* arr[0]
ElemZero(arr) == IF arr = <<>> THEN Undefined ELSE arr[1]

(***************************************************************************)
(* Reading the records of one BeatmapSet.                                  *)
(***************************************************************************)
\* list.at(0)
AtLast(list) == IF list = <<>> THEN Undefined ELSE list[Len(list)]
AtZero(list) == IF list = <<>> THEN Undefined ELSE list[1]

\* first?.Metadata.<field>
MetaField(first, field) ==
  IF first = Undefined THEN Undefined
  ELSE IF first.Metadata = Null THEN Throw
  ELSE first.Metadata[field]

\* first?.Length, first?.BPM
BeatmapField(first, field) ==
  IF first = Undefined THEN Undefined ELSE first[field]

\* files.find((f) => f.Filename == key)
RECURSIVE Find(_, _)
Find(files, key) ==
  IF files = <<>> THEN Undefined
  ELSE IF LooseEq(Head(files).Filename, key) THEN Head(files)
  ELSE Find(Tail(files), key)

\* files.find((f) => f.Filename == first?.Metadata.<field>)?.File.Hash
\* The callback, and with it the read of first?.Metadata.<field>, runs only
\* when files has an element.
AssetHash(set, field) ==
  LET first == AtZero(set.Beatmaps)
      files == set.Files
  IN IF files = <<>> THEN Undefined
     ELSE LET key == MetaField(first, field)
          IN IF key = Throw THEN Throw
             ELSE LET usage == Find(files, key)
                  IN IF usage = Undefined THEN Undefined
                     ELSE IF usage.File = Null THEN Throw
                     ELSE usage.File.Hash

\* the object literal assigned to extracted
Extracted(set, aHash, aPaths, bHash, bPaths) ==
  LET first == AtZero(set.Beatmaps)
  IN IF MetaField(first, "Artist") = Throw THEN Throw
     ELSE [id |-> set.OnlineID,
           artist |-> MetaField(first, "Artist"),
           artist_unicode |-> MetaField(first, "ArtistUnicode"),
           title |-> MetaField(first, "Title"),
           title_unicode |-> MetaField(first, "TitleUnicode"),
           audio |-> MetaField(first, "AudioFile"),
           audio_hash |-> aHash,
           audio_path |-> ElemZero(aPaths),
           background |-> MetaField(first, "BackgroundFile"),
           background_hash |-> bHash,
           background_path |-> ElemZero(bPaths),
           hash |-> set.Hash,
           tags |-> MetaField(first, "Tags"),
           total_time |-> BeatmapField(first, "Length"),
           bpm |-> BeatmapField(first, "BPM")]

\* count % 50 == 0
ProgressEvery == 50
ShouldNotify_OffByOne(c) == c % ProgressEvery = 1
ShouldNotify(c) == c % ProgressEvery = 0

\* data.push(extracted)
Push_Front(list, rec) == <<rec>> \o list
Push(list, rec) == Append(list, rec)

\* the Realm instance Realm.open resolves to
RealmConnection == [t |-> "realm"]

\* if (this.connection)
IsConnected_Always(conn) == TRUE
IsConnected(conn) == conn # Null

\* sendDebugData: forwards to the window when there is one
SendDebugData_Dropped(log, win, msg) == log
SendDebugData(log, win, msg) == IF win THEN Append(log, msg) ELSE log

ConnectingMsg == [text |-> "Try to connect realm db..."]
DataLoadedMsg == [text |-> "Data loaded."]
\* `Loading: ${title} (${count} / ${total})`
LoadingMsg(title, c, total) ==
  [text |-> "Loading", title |-> title, count |-> c, total |-> total]

NotConnectedError == "You should open connection at first."

(***************************************************************************)
(* Store contents.  Every link (Metadata, File) and every "string?"        *)
(* property of the schema may be null.                                     *)
(***************************************************************************)
DeadBeef == <<"d", "e", "a", "d", "b", "e", "e", "f">>
DeadBeefUpper == <<"D", "E", "A", "D", "B", "E", "E", "F">>
FoodFace == <<"f", "0", "0", "d", "f", "a", "c", "e">>
ShortHash == <<"d">>

MetaTrack ==
  [Title |-> Str("Song"), TitleUnicode |-> Str("SongU"),
   Artist |-> Str("Artist"), ArtistUnicode |-> Str("ArtistU"),
   Tags |-> Str("dnb"), AudioFile |-> Str("track.mp3"),
   BackgroundFile |-> Str("bg.jpg")]
MetaOther ==
  [Title |-> Str("Other"), TitleUnicode |-> Null,
   Artist |-> Str("Someone"), ArtistUnicode |-> Null,
   Tags |-> Null, AudioFile |-> Str("audio.ogg"),
   BackgroundFile |-> Null]

\* Length is kept in tenths, so that 180.5 is 1805
BmTrack == [Metadata |-> MetaTrack, Length |-> Num(1805), BPM |-> Num(174)]
BmOther == [Metadata |-> MetaOther, Length |-> Num(900), BPM |-> Num(120)]
BmNoMeta == [Metadata |-> Null, Length |-> Num(600), BPM |-> Num(90)]

Usage(name, file) == [Filename |-> name, File |-> file]
FileOf(hash) == [Hash |-> hash]
UseAudio == Usage(Str("track.mp3"), FileOf(Str(DeadBeef)))
UseBg == Usage(Str("bg.jpg"), FileOf(Str(FoodFace)))
UseAudioNoFile == Usage(Str("track.mp3"), Null)
UseBgNoFile == Usage(Str("bg.jpg"), Null)
UseNullName == Usage(Null, FileOf(Str(ShortHash)))
UseNullNameNoFile == Usage(Null, Null)
UseNullHash == Usage(Str("audio.ogg"), FileOf(Null))

MkSet(id, hash, beatmaps, files) ==
  [OnlineID |-> Num(id), Hash |-> hash, Beatmaps |-> beatmaps,
   Files |-> files]

SetE2E == MkSet(42, Str("abc"), <<BmTrack>>, <<UseAudio, UseBg>>)
SetEmpty == MkSet(1, Str("h1"), <<>>, <<>>)
SetTwo == MkSet(2, Str("h2"), <<BmOther, BmTrack>>, <<UseBg, UseAudio>>)
SetTwoPermuted ==
  MkSet(2, Str("h2"), <<BmTrack, BmOther>>, <<UseAudio, UseBg>>)
SetNoMeta == MkSet(3, Str("h3"), <<BmNoMeta>>, <<UseAudio>>)
SetNoMetaNoFiles == MkSet(4, Str("h4"), <<BmNoMeta, BmTrack>>, <<>>)
SetAudioNoFile == MkSet(5, Str("h5"), <<BmTrack>>, <<UseAudioNoFile, UseBg>>)
SetBgNoFile == MkSet(6, Str("h6"), <<BmTrack>>, <<UseAudio, UseBgNoFile>>)
SetEmptyNullNameNoFile == MkSet(7, Str("h7"), <<>>, <<UseNullNameNoFile>>)
SetEmptyNullName == MkSet(8, Str("h8"), <<>>, <<UseNullName>>)
SetNullHash == MkSet(9, Null, <<BmOther>>, <<UseNullHash>>)

SetPool ==
  {SetE2E, SetEmpty, SetTwo, SetTwoPermuted, SetNoMeta, SetNoMetaNoFiles,
   SetAudioNoFile, SetBgNoFile, SetEmptyNullNameNoFile, SetEmptyNullName,
   SetNullHash}

SeqsUpTo(S, n) == UNION {[1..k -> S] : k \in 0..n}

RichStores == SeqsUpTo(SetPool, MaxSets)

\* the i-th set of a uniform store
CadenceSet(i) == MkSet(i, Str("c"), <<BmTrack>>, <<UseAudio>>)
CadenceStores == {[i \in 1..n |-> CadenceSet(i)] : n \in 0..MaxCadenceSets}

ShardOf(h) == <<SubSeq(h, 1, 1), SubSeq(h, 1, 2), h>>

FsNone == <<>>
FsE2E == <<ShardOf(DeadBeef)>>
FsCaseVariants ==
  <<ShardOf(DeadBeefUpper), ShardOf(DeadBeef), ShardOf(FoodFace),
    <<ShortHash, ShortHash, ShortHash>>>>
FsUndefinedDir ==
  <<<<UndefinedText, UndefinedText, UndefinedText>>, ShardOf(DeadBeef)>>

FileSystems == {FsNone, FsE2E, FsCaseVariants, FsUndefinedDir}

Platforms ==
  {[nocase |-> FALSE, sep |-> "/"], [nocase |-> TRUE, sep |-> "/"],
   [nocase |-> TRUE, sep |-> "\\"]}

(***************************************************************************)
(* State.                                                                  *)
(***************************************************************************)
VARIABLES
  store,           \* the BeatmapSet records of the Realm file, storage order
  fs,              \* files below <appData>/osu/files
  platform,        \* glob's platform defaults
  window,          \* whether the instance was given a BrowserWindow
  pc,              \* position of the caller / of the async functions
  connection,      \* this.connection
  handedBack,      \* open() has returned the instance to its caller
  openAttempts,    \* calls of Realm.open
  reads,           \* calls of connection.objects
  getObjectsCalls, \* calls of getObjects
  lastGetObjects,  \* outcome of the latest getObjects call
  idx,             \* position of the for..of iterator
  count,           \* let count
  data,            \* const data
  aHash,           \* const audioHash
  aPaths,          \* const audioPaths
  bHash,           \* const backgroundHash
  bPaths,          \* const backgroundPaths
  sent,            \* messages sent on "debug-data"
  globCalls,       \* calls of glob.glob
  error,           \* the error the pass ended with
  result           \* what getAsBeatmapData returned

vars ==
  <<store, fs, platform, window, pc, connection, handedBack, openAttempts,
    reads, getObjectsCalls, lastGetObjects, idx, count, data, aHash, aPaths,
    bHash, bPaths, sent, globCalls, error, result>>

env == <<store, fs, platform, window>>
loopLocals == <<aHash, aPaths, bHash, bPaths>>

NoResult == [returned |-> FALSE, data |-> <<>>]
NoError == "none"

Start ==
  /\ window \in BOOLEAN
  /\ pc = "Idle"
  /\ connection = Null
  /\ handedBack = FALSE
  /\ openAttempts = 0
  /\ reads = 0
  /\ getObjectsCalls = 0
  /\ lastGetObjects = NoError
  /\ idx = 0
  /\ count = 0
  /\ data = <<>>
  /\ aHash = Undefined
  /\ aPaths = <<>>
  /\ bHash = Undefined
  /\ bPaths = <<>>
  /\ sent = <<>>
  /\ globCalls = <<>>
  /\ error = NoError
  /\ result = NoResult

\* short stores of every kind of set, on every file system and platform
Init ==
  /\ store \in RichStores
  /\ fs \in FileSystems
  /\ platform \in Platforms
  /\ Start

\* long stores of uniform sets
InitCadence ==
  /\ store \in CadenceStores
  /\ fs = FsE2E
  /\ platform = [nocase |-> FALSE, sep |-> "/"]
  /\ Start

(***************************************************************************)
(* Operations.                                                             *)
(***************************************************************************)
\* new OsuLazerDatabase(window), by a caller that does not go through open
Constructor ==
  /\ pc = "Idle"
  /\ pc' = "Constructed"
  /\ connection' = Null
  /\ UNCHANGED <<env, handedBack, openAttempts, reads, getObjectsCalls,
                 lastGetObjects, idx, count, data, loopLocals, sent,
                 globCalls, error, result>>

\* open(): the constructor and the "connecting" message
OpenBegin ==
  /\ pc = "Idle"
  /\ connection' = Null
  /\ sent' = SendDebugData(sent, window, ConnectingMsg)
  /\ pc' = "Opening"
  /\ UNCHANGED <<env, handedBack, openAttempts, reads, getObjectsCalls,
                 lastGetObjects, idx, count, data, loopLocals, globCalls,
                 error, result>>

\* open(): Realm.open is called and awaited
OpenAttempt ==
  /\ pc = "Opening"
  /\ openAttempts' = openAttempts + 1
  /\ pc' = "Connecting"
  /\ UNCHANGED <<env, connection, handedBack, reads, getObjectsCalls,
                 lastGetObjects, idx, count, data, loopLocals, sent,
                 globCalls, error, result>>

\* open(): Realm.open resolved; the instance is returned
OpenResolved ==
  /\ pc = "Connecting"
  /\ connection' = RealmConnection
  /\ handedBack' = TRUE
  /\ pc' = "Connected"
  /\ UNCHANGED <<env, openAttempts, reads, getObjectsCalls, lastGetObjects,
                 idx, count, data, loopLocals, sent, globCalls, error,
                 result>>

\* open(): Realm.open rejected (missing, locked, corrupt file or schema
\* version mismatch); the rejection propagates out of open
OpenRejected ==
  /\ pc = "Connecting"
  /\ error' = "ConnectionError"
  /\ pc' = "Failed"
  /\ UNCHANGED <<env, connection, handedBack, openAttempts, reads,
                 getObjectsCalls, lastGetObjects, idx, count, data,
                 loopLocals, sent, globCalls, result>>

\* getObjects(type)
GetObjects ==
  /\ pc \in {"Connected", "Constructed"}
  /\ getObjectsCalls < MaxGetObjectsCalls
  /\ getObjectsCalls' = getObjectsCalls + 1
  /\ IF IsConnected(connection)
     THEN /\ reads' = reads + 1
          /\ lastGetObjects' = "objects"
     ELSE /\ reads' = reads
          /\ lastGetObjects' = NotConnectedError
  /\ UNCHANGED <<env, pc, connection, handedBack, openAttempts, idx, count,
                 data, loopLocals, sent, globCalls, error, result>>

\* getAsBeatmapData(): the connection check and the start of the loop
GetAsBeatmapDataBegin ==
  /\ pc \in {"Connected", "Constructed"}
  /\ IF IsConnected(connection)
     THEN /\ data' = <<>>
          /\ count' = 0
          /\ reads' = reads + 1
          /\ idx' = 1
          /\ pc' = "Loop"
          /\ error' = error
     ELSE /\ error' = NotConnectedError
          /\ pc' = "Failed"
          /\ UNCHANGED <<data, count, reads, idx>>
  /\ UNCHANGED <<env, connection, handedBack, openAttempts, getObjectsCalls,
                 lastGetObjects, loopLocals, sent, globCalls, result>>

GlobCall(i, asset, h) ==
  [set |-> i, asset |-> asset, hash |-> h, pattern |-> Pattern(h)]

\* one iteration, up to the await of the audio glob
LoopAudio ==
  /\ pc = "Loop"
  /\ idx <= Len(store)
  /\ LET h == AssetHash(store[idx], "AudioFile")
     IN IF h = Throw
        THEN /\ error' = "TypeError"
             /\ pc' = "Failed"
             /\ UNCHANGED <<aHash, aPaths, globCalls>>
        ELSE /\ aHash' = h
             /\ globCalls' = Append(globCalls, GlobCall(idx, "audio", h))
             /\ aPaths' = NormalizePaths(Glob(fs, platform, Pattern(h)))
             /\ pc' = "Background"
             /\ error' = error
  /\ UNCHANGED <<env, connection, handedBack, openAttempts, reads,
                 getObjectsCalls, lastGetObjects, idx, count, data, bHash,
                 bPaths, sent, result>>

\* one iteration, from the audio paths to the await of the background glob
LoopBackground ==
  /\ pc = "Background"
  /\ LET h == AssetHash(store[idx], "BackgroundFile")
     IN IF h = Throw
        THEN /\ error' = "TypeError"
             /\ pc' = "Failed"
             /\ UNCHANGED <<bHash, bPaths, globCalls>>
        ELSE /\ bHash' = h
             /\ globCalls' = Append(globCalls, GlobCall(idx, "background", h))
             /\ bPaths' = NormalizePaths(Glob(fs, platform, Pattern(h)))
             /\ pc' = "Assemble"
             /\ error' = error
  /\ UNCHANGED <<env, connection, handedBack, openAttempts, reads,
                 getObjectsCalls, lastGetObjects, idx, count, data, aHash,
                 aPaths, sent, result>>

\* one iteration, from the background paths to data.push
LoopAssemble ==
  /\ pc = "Assemble"
  /\ LET extracted == Extracted(store[idx], aHash, aPaths, bHash, bPaths)
     IN IF extracted = Throw
        THEN /\ error' = "TypeError"
             /\ pc' = "Failed"
             /\ UNCHANGED <<count, reads, sent, data, idx>>
        ELSE /\ count' = count + 1
             /\ IF ShouldNotify(count')
                THEN /\ reads' = reads + 1
                     /\ sent' = SendDebugData(sent, window,
                                  LoadingMsg(extracted.title, count',
                                             Len(store)))
                ELSE UNCHANGED <<reads, sent>>
             /\ data' = Push(data, extracted)
             /\ idx' = idx + 1
             /\ pc' = "Loop"
             /\ error' = error
  /\ UNCHANGED <<env, connection, handedBack, openAttempts, getObjectsCalls,
                 lastGetObjects, loopLocals, globCalls, result>>

\* getAsBeatmapData(): after the loop
GetAsBeatmapDataEnd ==
  /\ pc = "Loop"
  /\ idx > Len(store)
  /\ sent' = SendDebugData(sent, window, DataLoadedMsg)
  /\ result' = [returned |-> TRUE, data |-> data]
  /\ pc' = "Completed"
  /\ UNCHANGED <<env, connection, handedBack, openAttempts, reads,
                 getObjectsCalls, lastGetObjects, idx, count, data,
                 loopLocals, globCalls, error>>

Next ==
  \/ Constructor
  \/ OpenBegin
  \/ OpenAttempt
  \/ OpenResolved
  \/ OpenRejected
  \/ GetObjects
  \/ GetAsBeatmapDataBegin
  \/ LoopAudio
  \/ LoopBackground
  \/ LoopAssemble
  \/ GetAsBeatmapDataEnd

Spec == Init /\ [][Next]_vars

SpecCadence == InitCadence /\ [][Next]_vars

TypeOK ==
  /\ pc \in {"Idle", "Constructed", "Opening", "Connecting", "Connected",
             "Loop", "Background", "Assemble", "Completed", "Failed"}
  /\ idx \in 0..(Len(store) + 1)
  /\ count \in 0..Len(store)

(***************************************************************************)
(* Properties.                                                             *)
(***************************************************************************)
Extracting == pc \in {"Loop", "Background", "Assemble"}

ProgressMessages == SelectSeq(sent, LAMBDA m : m.text = "Loading")
PassMessages == SelectSeq(sent, LAMBDA m : m # ConnectingMsg)
DataLoadedSent == \E k \in 1..Len(sent) : sent[k] = DataLoadedMsg

\* C1: with a window attached, a pass over N sets sends floor(N/50)
\* progress messages during the loop, the k-th carrying the counter 50*k,
\* and after the loop exactly one "Data loaded." message, which is the last
\* message of the pass.
C1_ProgressCadence ==
  window =>
    /\ Extracting =>
         /\ ~DataLoadedSent
         /\ Len(ProgressMessages) = count \div 50
         /\ \A k \in 1..Len(ProgressMessages) :
              ProgressMessages[k].count = 50 * k
    /\ pc = "Completed" =>
         LET n == Len(store) \div 50
         IN /\ Len(PassMessages) = n + 1
            /\ \A k \in 1..n :
                 /\ PassMessages[k].text = "Loading"
                 /\ PassMessages[k].count = 50 * k
            /\ PassMessages[n + 1] = DataLoadedMsg
            /\ sent[Len(sent)] = DataLoadedMsg

C1_Witness ==
  /\ window
  /\ pc = "Completed"
  /\ Len(store) = 100
  /\ Len(ProgressMessages) = 2
  /\ ProgressMessages[2].count = 100

Reverse(list) == [k \in 1..Len(list) |-> list[Len(list) + 1 - k]]

\* the set with its Beatmaps and / or Files collection permuted
SubPermutations(set) ==
  {[set EXCEPT !.Beatmaps = b, !.Files = f] :
     b \in {set.Beatmaps, Reverse(set.Beatmaps)},
     f \in {set.Files, Reverse(set.Files)}}

\* C2: the output has one record per BeatmapSet, the i-th record carries
\* the OnlineID and Hash of the i-th set in storage order, and a set with
\* its Beatmaps or Files permuted yields a record with the same id and hash
\* at that position.
C2_OutputOrder ==
  /\ Len(data) <= Len(store)
  /\ \A i \in 1..Len(data) :
       /\ data[i].id = store[i].OnlineID
       /\ data[i].hash = store[i].Hash
       /\ \A p \in SubPermutations(store[i]) :
            LET r == Extracted(p, Undefined, <<>>, Undefined, <<>>)
            IN r # Throw => r.id = data[i].id /\ r.hash = data[i].hash
  /\ pc = "Completed" =>
       /\ result.returned
       /\ result.data = data
       /\ Len(result.data) = Len(store)

C2_Witness ==
  /\ pc = "Completed"
  /\ store = <<SetTwo, SetE2E>>
  /\ Len(result.data) = 2
  /\ result.data[1].id = Num(2)
  /\ result.data[2].id = Num(42)

\* C3: the record of a set with a non-empty Beatmaps collection takes its
\* artist, title (both scripts), tags, audio and background filenames,
\* total_time and bpm from the first element of Beatmaps and its Metadata.
C3_PrimaryIsFirst ==
  \A i \in 1..Len(data) :
    store[i].Beatmaps # <<>> =>
      LET b == store[i].Beatmaps[1]
          r == data[i]
      IN /\ b.Metadata # Null
         /\ r.artist = b.Metadata.Artist
         /\ r.artist_unicode = b.Metadata.ArtistUnicode
         /\ r.title = b.Metadata.Title
         /\ r.title_unicode = b.Metadata.TitleUnicode
         /\ r.tags = b.Metadata.Tags
         /\ r.audio = b.Metadata.AudioFile
         /\ r.background = b.Metadata.BackgroundFile
         /\ r.total_time = b.Length
         /\ r.bpm = b.BPM

C3_Witness ==
  /\ pc = "Completed"
  /\ \E i \in 1..Len(data) :
       /\ store[i] = SetTwo
       /\ data[i].title = Str("Other")
       /\ data[i].total_time = Num(900)

PrimaryFieldsUndefined(r) ==
  /\ r.artist = Undefined
  /\ r.artist_unicode = Undefined
  /\ r.title = Undefined
  /\ r.title_unicode = Undefined
  /\ r.tags = Undefined
  /\ r.audio = Undefined
  /\ r.background = Undefined
  /\ r.total_time = Undefined
  /\ r.bpm = Undefined

\* C4: a set whose Beatmaps collection is empty never makes the pass fail;
\* its record has every primary-beatmap field undefined.
C4_EmptyBeatmapsNeverFail ==
  /\ (pc = "Failed" /\ error = "TypeError") => store[idx].Beatmaps # <<>>
  /\ \A i \in 1..Len(data) :
       store[i].Beatmaps = <<>> => PrimaryFieldsUndefined(data[i])

\* no entry of Files has a Filename equal (==) to the metadata's filename
NoUsageMatches(set, field) ==
  LET key == MetaField(AtZero(set.Beatmaps), field)
  IN /\ key # Throw
     /\ \A k \in 1..Len(set.Files) : ~LooseEq(set.Files[k].Filename, key)

\* C5: for each asset, when no Files entry has the metadata's filename, the
\* asset's hash and path are both undefined whatever the storage root
\* holds, and the pass does not fail on that set.
C5_MissYieldsUndefined ==
  /\ \A i \in 1..Len(data) :
       /\ NoUsageMatches(store[i], "AudioFile") =>
            /\ data[i].audio_hash = Undefined
            /\ data[i].audio_path = Undefined
       /\ NoUsageMatches(store[i], "BackgroundFile") =>
            /\ data[i].background_hash = Undefined
            /\ data[i].background_path = Undefined
  /\ (pc = "Failed" /\ error = "TypeError") =>
       ~(/\ NoUsageMatches(store[idx], "AudioFile")
         /\ NoUsageMatches(store[idx], "BackgroundFile"))

\* C6: no file-system search is made for an asset whose hash is undefined.
C6_NoSearchWithoutHash ==
  \A k \in 1..Len(globCalls) : globCalls[k].hash # Undefined

Prefix(h, n) == SubSeq(h, 1, Min(n, Len(h)))

\* <appData>/osu/files/<h[0:1]>/<h[0:2]>/<h>
ShardLocation(h) == FilesRoot \o <<Prefix(h, 1), Prefix(h, 2), h>>

AssetResolvedAtShard(i, asset, h, path) ==
  h.t = "str" =>
    LET found == NormalizePaths(Glob(fs, platform, ShardLocation(h.v)))
    IN /\ \E k \in 1..Len(globCalls) :
            /\ globCalls[k].set = i
            /\ globCalls[k].asset = asset
       /\ \A k \in 1..Len(globCalls) :
            (globCalls[k].set = i /\ globCalls[k].asset = asset) =>
              globCalls[k].pattern = ShardLocation(h.v)
       /\ (path = Undefined) <=> (found = <<>>)
       /\ found # <<>> => path = found[1]

\* C7: an asset whose hash h is present is searched at exactly
\* <appData>/osu/files/<h[0:1]>/<h[0:2]>/<h>; its path is the first path
\* found, and undefined exactly when nothing is found.  The set with audio
\* hash deadbeef (file present) and background hash f00dface (no file)
\* yields that audio path, an undefined background path and both hashes.
C7_ShardResolution ==
  /\ \A i \in 1..Len(data) :
       /\ AssetResolvedAtShard(i, "audio", data[i].audio_hash,
                               data[i].audio_path)
       /\ AssetResolvedAtShard(i, "background", data[i].background_hash,
                               data[i].background_path)
  /\ (pc = "Completed" /\ store = <<SetE2E>> /\ fs = FsE2E) =>
       /\ Len(result.data) = 1
       /\ result.data[1].id = Num(42)
       /\ result.data[1].hash = Str("abc")
       /\ result.data[1].total_time = Num(1805)
       /\ result.data[1].bpm = Num(174)
       /\ result.data[1].audio = Str("track.mp3")
       /\ result.data[1].audio_hash = Str(DeadBeef)
       /\ result.data[1].audio_path =
            Str([sep |-> "/",
                 segs |-> FilesRoot \o
                            <<<<"d">>, <<"d", "e">>, DeadBeef>>])
       /\ result.data[1].background = Str("bg.jpg")
       /\ result.data[1].background_hash = Str(FoodFace)
       /\ result.data[1].background_path = Undefined

C7_Witness ==
  /\ pc = "Completed"
  /\ store = <<SetE2E>>
  /\ fs = FsE2E
  /\ result.data[1].audio_path # Undefined
  /\ result.data[1].background_path = Undefined
  /\ Len(globCalls) = 2

\* C8: on an instance that never had a successful open, getObjects and
\* getAsBeatmapData fail with "You should open connection at first."
\* before any record is read, any message sent or any search made, and
\* nothing is returned.
C8_NotConnected ==
  ~handedBack =>
    /\ ~Extracting
    /\ pc # "Completed"
    /\ reads = 0
    /\ globCalls = <<>>
    /\ data = <<>>
    /\ ~result.returned
    /\ getObjectsCalls > 0 => lastGetObjects = NotConnectedError
    /\ (pc = "Failed" /\ openAttempts = 0) =>
         /\ error = NotConnectedError
         /\ sent = <<>>

C8_Witness ==
  /\ ~handedBack
  /\ pc = "Failed"
  /\ error = NotConnectedError
  /\ lastGetObjects = NotConnectedError

Phase(p) ==
  CASE p \in {"Idle", "Constructed"} -> 0
    [] p \in {"Opening", "Connecting", "Connected"} -> 1
    [] p \in {"Loop", "Background", "Assemble"} -> 2
    [] OTHER -> 3

C9_State ==
  /\ openAttempts <= 1
  /\ (window /\ openAttempts >= 1) =>
       /\ Len(sent) >= 1
       /\ sent[1] = ConnectingMsg
  /\ (pc = "Failed" /\ error = "ConnectionError") =>
       /\ openAttempts = 1
       /\ ~handedBack
       /\ connection = Null
       /\ reads = 0
       /\ idx = 0
       /\ data = <<>>
       /\ globCalls = <<>>
       /\ ~result.returned
       /\ ~DataLoadedSent

C9_Step ==
  /\ Phase(pc') >= Phase(pc)
  /\ (Phase(pc') = 2 /\ Phase(pc) # 2) => (pc = "Connected" /\ handedBack)
  /\ pc \in {"Completed", "Failed"} =>
       /\ pc' = pc
       /\ openAttempts' = openAttempts

\* C9: the pass goes Idle -> Connecting -> Extracting -> Completed | Failed
\* and never back; the "connecting" message precedes the open attempt; a
\* failed open ends the pass with no record read, no instance handed back,
\* no output, no "Data loaded." message and no second open attempt.
C9_NoRetry == []C9_State /\ [][C9_Step]_vars

C9_Witness ==
  /\ pc = "Failed"
  /\ error = "ConnectionError"
  /\ window
  /\ sent = <<ConnectingMsg>>
  /\ Len(store) > 0

\* C10: once the connected check has passed, nothing inside the loop raises
\* an exception: the pass completes with one record per set.
C10_NoExceptionInLoop ==
  /\ ~(pc = "Failed" /\ error = "TypeError")
  /\ pc = "Completed" => Len(result.data) = Len(store)
====
